---------------------------- MODULE Spec2Model ----------------------------
(***************************************************************************)
(* Chart fusion backend (src/backend/app.py): the in-memory Dataset Store  *)
(* (DATASETS), the Chart Registry (CHARTS) and the three request handlers  *)
(* that change them: /upload, /charts and /fuse.                           *)
(*                                                                         *)
(* Representation                                                          *)
(*   - a column name, an agg name and a dimension value is a string;       *)
(*   - a numeric cell is an integer, NaN is the sentinel NaN, and the      *)
(*     null marker written by _clean_dataframe_for_json is None;           *)
(*   - a DataFrame is [cols |-> sequence of names, rows |-> sequence of    *)
(*     records]; a list of records (to_dict("records")) is the rows alone; *)
(*   - a formatted string (a title, a joined label) is the sequence of its *)
(*     pieces, separators included;                                        *)
(*   - an HTTP response is [status, msg, arg]: 200 on success, the status  *)
(*     and detail of the HTTPException raised, or 500 with the name of the *)
(*     uncaught Python exception.                                          *)
(***************************************************************************)
EXTENDS Integers, Sequences, FiniteSets, TLC

(***************************************************************************)
(* Bounds of the model.                                                    *)
(***************************************************************************)
MaxDatasets == 2
MaxCreated == 2
MaxCharts == 3
MaxListLen == 2

NaN == -1
None == -2
NoValue == "None"

(***************************************************************************)
(* Python compares strings by code point: upper case before lower case.    *)
(* StrOrder lists every string the model sorts, in that order.             *)
(***************************************************************************)
StrOrder ==
  << "Age", "Count", "Gone", "Income", "N", "Product", "Region", "S",
     "a", "b", "bin", "count" >>

StrRank(s) == CHOOSE i \in 1..Len(StrOrder) : StrOrder[i] = s

Range(seq) == { seq[i] : i \in 1..Len(seq) }

\* sorted the wrong way round
RECURSIVE SortedListReversed(_)
SortedListReversed(S) ==
  IF S = {} THEN << >>
  ELSE LET m == CHOOSE x \in S : \A y \in S : StrRank(x) >= StrRank(y)
       IN  << m >> \o SortedListReversed(S \ {m})

RECURSIVE SortedList(_)
SortedList(S) ==
  IF S = {} THEN << >>
  ELSE LET m == CHOOSE x \in S : \A y \in S : StrRank(x) <= StrRank(y)
       IN  << m >> \o SortedList(S \ {m})

\* every list without repetition whose elements are exactly S: the orders in
\* which list(set) may enumerate a Python set of strings
RECURSIVE ListsOf(_)
ListsOf(S) ==
  IF S = {} THEN { << >> }
  ELSE UNION { { << x >> \o l : l \in ListsOf(S \ {x}) } : x \in S }

RECURSIVE SumSeq(_)
SumSeq(s) == IF s = << >> THEN 0 ELSE Head(s) + SumSeq(Tail(s))

RECURSIVE MinSeq(_)
MinSeq(s) ==
  IF Len(s) = 1 THEN s[1]
  ELSE LET m == MinSeq(Tail(s)) IN IF s[1] <= m THEN s[1] ELSE m

RECURSIVE MaxSeq(_)
MaxSeq(s) ==
  IF Len(s) = 1 THEN s[1]
  ELSE LET m == MaxSeq(Tail(s)) IN IF s[1] >= m THEN s[1] ELSE m

\* the first element of seq that is no member of cols, as a list of at most one
RECURSIVE FirstMissing(_, _)
FirstMissing(seq, cols) ==
  IF seq = << >> THEN << >>
  ELSE IF Head(seq) \notin cols THEN << Head(seq) >>
  ELSE FirstMissing(Tail(seq), cols)

(***************************************************************************)
(* The uploaded file.  Region and Product are text columns, Age and Income *)
(* numeric ones with missing cells.  The numeric cells are multiples of 6  *)
(* so that the mean of any one, two or three of them is an integer.        *)
(***************************************************************************)
UploadedFile ==
  [ cols |-> << "Region", "Product", "Age", "Income" >>,
    rows |-> << [ Region |-> "N", Product |-> "a", Age |-> 6,   Income |-> 12 ],
                [ Region |-> "N", Product |-> "b", Age |-> NaN, Income |-> 6 ],
                [ Region |-> "S", Product |-> "a", Age |-> 12,  Income |-> NaN ] >> ]

Ok == [ status |-> 200, msg |-> "OK", arg |-> << >> ]
HTTPException(code, detail, arg) == [ status |-> code, msg |-> detail, arg |-> arg ]
Uncaught(exc, arg) == [ status |-> 500, msg |-> exc, arg |-> arg ]


(***************************************************************************)
(* pandas, as far as the handlers use it.                                  *)
(***************************************************************************)
TextCols == { "Region", "Product", "DimensionType", "DimensionValue", "bin" }

Columns(df) == Range(df.cols)

\* the key of a row under groupby(dims)
KeyOf(row, dims) == [ i \in 1..Len(dims) |-> row[dims[i]] ]

\* lexicographic order of two keys of the same length
RECURSIVE KeyLeq(_, _)
KeyLeq(k1, k2) ==
  IF k1 = << >> THEN TRUE
  ELSE IF StrRank(k1[1]) < StrRank(k2[1]) THEN TRUE
  ELSE IF StrRank(k1[1]) > StrRank(k2[1]) THEN FALSE
  ELSE KeyLeq(Tail(k1), Tail(k2))

RECURSIVE SortedKeys(_)
SortedKeys(K) ==
  IF K = {} THEN << >>
  ELSE LET m == CHOOSE x \in K : \A y \in K : KeyLeq(x, y)
       IN  << m >> \o SortedKeys(K \ {m})

\* groupby sorts the groups by key (sort=True is the default)
GroupKeys(df, dims) ==
  SortedKeys({ KeyOf(df.rows[i], dims) : i \in 1..Len(df.rows) })

\* the cells of column col in the rows of the group of key
RECURSIVE GroupCells(_, _, _, _)
GroupCells(rows, dims, key, col) ==
  IF rows = << >> THEN << >>
  ELSE (IF KeyOf(Head(rows), dims) = key THEN << Head(rows)[col] >> ELSE << >>)
       \o GroupCells(Tail(rows), dims, key, col)

NotNaN(v) == v # NaN

\* the reductions pandas knows by name; NaN cells are skipped (skipna)
PandasFunctions == { "sum", "mean", "min", "max", "count" }

Reduce(f, cells) ==
  LET vals == SelectSeq(cells, NotNaN)
  IN  CASE f = "sum"   -> SumSeq(vals)
        [] f = "count" -> Len(vals)
        [] f = "mean"  -> IF vals = << >> THEN NaN ELSE SumSeq(vals) \div Len(vals)
        [] f = "min"   -> IF vals = << >> THEN NaN ELSE MinSeq(vals)
        [] f = "max"   -> IF vals = << >> THEN NaN ELSE MaxSeq(vals)

\* a row made of the key columns and the value columns
MakeRow(dims, key, cols, val(_)) ==
  [ c \in Range(dims) \cup Range(cols) |->
      IF c \in Range(cols) THEN val(c)
      ELSE key[CHOOSE i \in 1..Len(dims) : dims[i] = c] ]

\* df.groupby(dims).size().reset_index(name=name)
GroupSize(df, dims, name) ==
  LET keys == GroupKeys(df, dims)
  IN  [ cols |-> dims \o << name >>,
        rows |-> [ i \in 1..Len(keys) |->
                     LET n == Len(GroupCells(df.rows, dims, keys[i], dims[1]))
                         cnt(c) == n
                     IN  MakeRow(dims, keys[i], << name >>, cnt) ] ]

\* df.groupby(dims)[measures].agg(f).reset_index()
GroupAgg(df, dims, measures, f) ==
  LET keys == GroupKeys(df, dims)
  IN  [ cols |-> dims \o measures,
        rows |-> [ i \in 1..Len(keys) |->
                     LET red(c) == Reduce(f, GroupCells(df.rows, dims, keys[i], c))
                     IN  MakeRow(dims, keys[i], measures, red) ] ]

\* df[measures].agg(f).to_frame().T
FrameAgg(df, measures, f) ==
  [ cols |-> measures,
    rows |-> << [ c \in Range(measures) |->
                    Reduce(f, [ i \in 1..Len(df.rows) |-> df.rows[i][c] ]) ] >> ]

\* the projection alone, no row dropped
DropNaKeepAll(rows, cols) ==
  [ i \in 1..Len(rows) |-> [ c \in Range(cols) |-> rows[i][c] ] ]

\* df[cols].dropna()
RECURSIVE DropNa(_, _)
DropNa(rows, cols) ==
  IF rows = << >> THEN << >>
  ELSE (IF \A c \in Range(cols) : Head(rows)[c] # NaN
        THEN << [ c \in Range(cols) |-> Head(rows)[c] ] >> ELSE << >>)
       \o DropNa(Tail(rows), cols)

(***************************************************************************)
(* _clean_dataframe_for_json: NaN (and the infinities) become None.        *)
(***************************************************************************)
CleanRow(row) ==
  [ c \in DOMAIN row |->
      IF c \in TextCols THEN row[c] ELSE IF row[c] = NaN THEN None ELSE row[c] ]

CleanDataframeForJson(df) ==
  [ cols |-> df.cols, rows |-> [ i \in 1..Len(df.rows) |-> CleanRow(df.rows[i]) ] ]

\* DataFrame.to_dict(orient="records")
ToRecords(df) == df.rows

(***************************************************************************)
(* _agg: the aggregation helper.  The result is [err, df]; df is           *)
(* meaningful only when err = Ok.                                          *)
(***************************************************************************)
NoFrame == [ cols |-> << >>, rows |-> << >> ]

AggMapping(agg) == IF agg = "avg" THEN "mean" ELSE agg

\* the column check made before the count branch, on the measures too
AggChecksMeasuresFirst(df, dimensions, measures, agg) ==
  LET pandas_agg == AggMapping(agg)
      missAll == FirstMissing(dimensions \o measures, Columns(df))
  IN  IF missAll # << >>
      THEN [ err |-> HTTPException(400, "Column not found", missAll), df |-> NoFrame ]
      ELSE IF agg = "count"
      THEN IF dimensions # << >>
           THEN [ err |-> Ok, df |-> GroupSize(df, dimensions, "count") ]
           ELSE [ err |-> Ok,
                  df |-> [ cols |-> << "count" >>,
                           rows |-> << [ count |-> Len(df.rows) ] >> ] ]
      ELSE IF measures = << >>
      THEN [ err |-> HTTPException(400, "At least one measure is required for non-count aggregations", << >>),
             df |-> NoFrame ]
      ELSE IF pandas_agg \notin PandasFunctions
      THEN [ err |-> Uncaught("AttributeError", << pandas_agg >>), df |-> NoFrame ]
      ELSE IF dimensions # << >>
      THEN [ err |-> Ok, df |-> GroupAgg(df, dimensions, measures, pandas_agg) ]
      ELSE [ err |-> Ok, df |-> FrameAgg(df, measures, pandas_agg) ]

Agg(df, dimensions, measures, agg) ==
  LET pandas_agg == AggMapping(agg)
      missDims == FirstMissing(dimensions, Columns(df))
      missAll == FirstMissing(dimensions \o measures, Columns(df))
  IN  IF agg = "count"
      THEN IF missDims # << >>
           THEN [ err |-> HTTPException(400, "Column not found", missDims), df |-> NoFrame ]
           ELSE IF dimensions # << >>
           THEN [ err |-> Ok, df |-> GroupSize(df, dimensions, "count") ]
           ELSE [ err |-> Ok,
                  df |-> [ cols |-> << "count" >>,
                           rows |-> << [ count |-> Len(df.rows) ] >> ] ]
      ELSE IF measures = << >>
      THEN [ err |-> HTTPException(400, "At least one measure is required for non-count aggregations", << >>),
             df |-> NoFrame ]
      ELSE IF missAll # << >>
      THEN [ err |-> HTTPException(400, "Column not found", missAll), df |-> NoFrame ]
      ELSE IF pandas_agg \notin PandasFunctions
      THEN [ err |-> Uncaught("AttributeError", << pandas_agg >>), df |-> NoFrame ]
      ELSE IF dimensions # << >>
      THEN [ err |-> Ok, df |-> GroupAgg(df, dimensions, measures, pandas_agg) ]
      ELSE [ err |-> Ok, df |-> FrameAgg(df, measures, pandas_agg) ]

(***************************************************************************)
(* The shape classifiers.                                                  *)
(***************************************************************************)
\* the legacy format alone: the binned format is not recognised
IsMeasureHistogramLegacyOnly(chart) ==
  Len(chart.dimensions) = 0 /\ Len(chart.measures) = 1 /\ chart.measures[1] # "count"

IsMeasureHistogram(chart) ==
  LET dims == chart.dimensions
      meas == chart.measures
  IN  \/ Len(dims) = 0 /\ Len(meas) = 1 /\ meas[1] # "count"
      \/ Len(dims) = 1 /\ dims[1] = "bin" /\ Len(meas) = 1 /\ meas[1] = "count"

IsDimensionCount(chart) ==
  LET dims == chart.dimensions
      meas == chart.measures
  IN  Len(dims) = 1 /\ (Len(meas) = 0 \/ (Len(meas) = 1 /\ meas[1] = "count"))

SameDimDiffMeasures(spec1, spec2) ==
  /\ spec1.dimensions = spec2.dimensions
  /\ Range(spec1.measures) # Range(spec2.measures)
  /\ Len(spec1.dimensions) > 0

\* the test without the exclusion of histograms
SameMeasureDiffDimsAnyChart(spec1, spec2) ==
  LET common_measures == Range(spec1.measures) \cap Range(spec2.measures)
  IN  /\ Cardinality(common_measures) = 1
      /\ spec1.dimensions # spec2.dimensions
      /\ (Len(spec1.dimensions) > 0 \/ Len(spec2.dimensions) > 0)

SameMeasureDiffDims(spec1, spec2) ==
  IF IsMeasureHistogram(spec1) \/ IsMeasureHistogram(spec2) THEN FALSE
  ELSE LET common_measures == Range(spec1.measures) \cap Range(spec2.measures)
       IN  /\ Cardinality(common_measures) = 1
           /\ spec1.dimensions # spec2.dimensions
           /\ (Len(spec1.dimensions) > 0 \/ Len(spec2.dimensions) > 0)


(***************************************************************************)
(* String formatting: sep.join(seq) is the sequence of the pieces.         *)
(***************************************************************************)
RECURSIVE JoinWith(_, _)
JoinWith(seq, sep) ==
  IF seq = << >> THEN << >>
  ELSE IF Len(seq) = 1 THEN << seq[1] >>
  ELSE << seq[1], sep >> \o JoinWith(Tail(seq), sep)

GenerateChartTitle(dimensions, measures, agg) ==
  LET measure_text ==
        IF measures = << >> THEN << >>
        ELSE IF Len(measures) = 1 THEN << measures[1] >>
        ELSE JoinWith(SubSeq(measures, 1, Len(measures) - 1), ", ")
             \o << " and ", measures[Len(measures)] >>
      dimension_text ==
        IF Len(dimensions) = 1 THEN << "by ", dimensions[1] >>
        ELSE << "by " >> \o JoinWith(SubSeq(dimensions, 1, Len(dimensions) - 1), ", ")
             \o << " and ", dimensions[Len(dimensions)] >>
  IN  IF dimensions = << >> /\ measures = << >> THEN << "Empty Chart" >>
      ELSE IF dimensions = << >> THEN << "Total " >> \o measure_text
      ELSE IF measures # << >> THEN measure_text \o << " " >> \o dimension_text
      ELSE << "Distribution " >> \o dimension_text

(***************************************************************************)
(* _apply_filters: AND between dimensions, OR within one dimension.        *)
(* filters is a function from dimension names to lists of allowed values;  *)
(* the empty function stands for both None and {}.                         *)
(***************************************************************************)
NoFilters == [ d \in {} |-> << >> ]

KeepRow(row, cols, filters) ==
  \A d \in DOMAIN filters :
     \/ filters[d] = << >>
     \/ d \notin cols
     \/ row[d] \in Range(filters[d])

ApplyFilters(df, filters) ==
  IF DOMAIN filters = {} THEN df
  ELSE LET keep(row) == KeepRow(row, Columns(df), filters)
       IN  [ cols |-> df.cols, rows |-> SelectSeq(df.rows, keep) ]


(***************************************************************************)
(* /fuse: the case dispatch and the table of each case.                    *)
(* A case yields [err, case, dims_out, measures_out, agg, title, strategy, *)
(* table, measure_chart, dimension_chart]; when err # Ok the exception was *)
(* raised and only err and case mean anything, except that Case C always   *)
(* reports its locals dim and measure in dims_out and measures_out.        *)
(* measure_chart and dimension_chart say which argument (1 or 2) Case C    *)
(* picked, 0 elsewhere.                                                    *)
(***************************************************************************)
\* the priority the wrong way round: the second chart first
PickAggLast(ch1, ch2) ==
  IF ch2.agg # "" THEN ch2.agg
  ELSE IF ch1.agg # "" THEN ch1.agg
  ELSE "sum"

PickAgg(ch1, ch2) ==
  IF ch1.agg # "" THEN ch1.agg
  ELSE IF ch2.agg # "" THEN ch2.agg
  ELSE "sum"

NoStrategy == [ type |-> NoValue, suggestion |-> NoValue ]

Raised(case, err) ==
  [ err |-> err, case |-> case, dims_out |-> << >>, measures_out |-> << >>,
    agg |-> NoValue, title |-> << >>, strategy |-> NoStrategy, table |-> << >>,
    measure_chart |-> 0, dimension_chart |-> 0 ]

Built(case, dims, measures, agg, title, stype, suggestion, table) ==
  [ err |-> Ok, case |-> case, dims_out |-> dims, measures_out |-> measures,
    agg |-> agg, title |-> title,
    strategy |-> [ type |-> stype, suggestion |-> suggestion ], table |-> table,
    measure_chart |-> 0, dimension_chart |-> 0 ]

\* the table of a DataFrame result: cleaned, then converted to records
FrameTable(df) == ToRecords(CleanDataframeForJson(df))

CaseA(c1, c2, df) ==
  LET dims == c1.dimensions
      measures == SortedList(Range(c1.measures) \cup Range(c2.measures))
      agg == PickAgg(c1, c2)
      r == Agg(df, dims, measures, agg)
  IN  IF r.err # Ok THEN Raised("A", r.err)
      ELSE Built("A", dims, measures, agg,
                 << "Combined: " >> \o JoinWith(measures, ", ") \o << " by " >>
                    \o JoinWith(dims, ", "),
                 "same-dimension-different-measures",
                 "grouped-bar | stacked-bar | dual-axis-line",
                 FrameTable(r.df))

\* Case B, both charts have a dimension: one groupby on the two dimensions,
\* with the agg name handed to pandas as it is
CaseBStacked(c1, c2, df, common_measure, agg) ==
  LET dim1 == c1.dimensions[1]
      dim2 == c2.dimensions[1]
      missing == FirstMissing(<< dim1, dim2 >>, Columns(df))
  IN  IF missing # << >> THEN Raised("B-stacked", Uncaught("KeyError", missing))
      ELSE IF common_measure \notin Columns(df)
      THEN Raised("B-stacked", Uncaught("KeyError", << common_measure >>))
      ELSE IF agg \notin PandasFunctions
      THEN Raised("B-stacked", Uncaught("AttributeError", << agg >>))
      ELSE IF dim1 = dim2
      THEN Raised("B-stacked", Uncaught("ValueError", << dim1 >>))
      ELSE Built("B-stacked", << dim1, dim2 >>, << common_measure >>, agg,
                 << "Stacked Bar: ", common_measure, " by ", dim1, " vs ", dim2 >>,
                 "same-measure-different-dimensions-stacked",
                 "stacked-bar | bubble-chart",
                 ToRecords(GroupAgg(df, << dim1, dim2 >>, << common_measure >>, agg)))

\* the flattened key without the "(total)" of a chart without dimension
LongRowsNoTotal(t, dims, common_measure) ==
  [ i \in 1..Len(t.rows) |->
      [ DimensionType |-> IF dims = << >> THEN << "(none)" >> ELSE JoinWith(dims, ","),
        DimensionValue |-> JoinWith([ j \in 1..Len(dims) |-> t.rows[i][dims[j]] ], " | "),
        Value |-> t.rows[i][common_measure] ] ]

\* one half of the long-format table: the rows of t tagged with the label of
\* its dimensions and the flattened key of each row
LongRows(t, dims, common_measure) ==
  [ i \in 1..Len(t.rows) |->
      [ DimensionType |-> IF dims = << >> THEN << "(none)" >> ELSE JoinWith(dims, ","),
        DimensionValue |-> IF dims = << >> THEN << "(total)" >>
                           ELSE JoinWith([ j \in 1..Len(dims) |-> t.rows[i][dims[j]] ], " | "),
        Value |-> t.rows[i][common_measure] ] ]

\* Case B, a chart without dimension: two aggregations, concatenated.
\* order is the order in which the set of all dimensions is listed.
CaseBLong(c1, c2, df, common_measure, agg, order) ==
  LET t1 == Agg(df, c1.dimensions, << common_measure >>, agg)
      t2 == Agg(df, c2.dimensions, << common_measure >>, agg)
  IN  IF t1.err # Ok THEN Raised("B-long", t1.err)
      ELSE IF t2.err # Ok THEN Raised("B-long", t2.err)
      ELSE IF common_measure \notin Columns(t1.df) \/ common_measure \notin Columns(t2.df)
      THEN Raised("B-long", Uncaught("KeyError", << common_measure >>))
      ELSE Built("B-long", order, << common_measure >>, agg,
                 << "Comparison: ", common_measure, " across different dimensions" >>,
                 "same-measure-different-dimensions",
                 "multi-series line/bar | heatmap-ready (if granular joint exists)",
                 FrameTable([ cols |-> << "DimensionType", "DimensionValue", "Value" >>,
                              rows |-> LongRows(t1.df, c1.dimensions, common_measure)
                                       \o LongRows(t2.df, c2.dimensions, common_measure) ]))

\* the long format whatever the dimensions of the two charts
CaseBAlwaysLong(c1, c2, df, order) ==
  LET common_measure == CHOOSE m \in Range(c1.measures) \cap Range(c2.measures) : TRUE
  IN  CaseBLong(c1, c2, df, common_measure, PickAgg(c1, c2), order)

CaseB(c1, c2, df, order) ==
  LET common_measure == CHOOSE m \in Range(c1.measures) \cap Range(c2.measures) : TRUE
      agg == PickAgg(c1, c2)
  IN  IF c1.dimensions # << >> /\ c2.dimensions # << >>
      THEN CaseBStacked(c1, c2, df, common_measure, agg)
      ELSE CaseBLong(c1, c2, df, common_measure, agg, order)

\* "originalMeasure" in chart and chart["originalMeasure"]
HasOriginalMeasure(chart) ==
  /\ "originalMeasure" \in DOMAIN chart
  /\ chart.originalMeasure # NoValue
  /\ chart.originalMeasure # ""

CaseC(c1, c2, df) ==
  LET mc == IF IsMeasureHistogram(c1) THEN 1 ELSE 2
      dc == IF IsDimensionCount(c2) THEN 2 ELSE 1
      measure_chart == IF mc = 1 THEN c1 ELSE c2
      dimension_chart == IF dc = 2 THEN c2 ELSE c1
      measure == IF HasOriginalMeasure(measure_chart)
                 THEN measure_chart.originalMeasure
                 ELSE measure_chart.measures[1]
      dim == dimension_chart.dimensions[1]
      agg == PickAgg(measure_chart, dimension_chart)
      r == Agg(df, << dim >>, << measure >>, agg)
      picked(x) == [ x EXCEPT !.measure_chart = mc, !.dimension_chart = dc,
                              !.dims_out = << dim >>, !.measures_out = << measure >> ]
  IN  IF dim \notin Columns(df)
      THEN picked(Raised("C", HTTPException(400, "Dimension column not found", << dim >>)))
      ELSE IF measure \notin Columns(df)
      THEN picked(Raised("C", HTTPException(400, "Measure column not found", << measure >>)))
      ELSE IF r.err # Ok THEN picked(Raised("C", r.err))
      ELSE picked(Built("C", << dim >>, << measure >>, agg,
                        << measure, " by ", dim >>,
                        "histogram-dimension-semantic-merge",
                        "bar | line | grouped-bar",
                        FrameTable(r.df)))

\* chart.get("originalMeasure", chart["measures"][0])
GetOriginalMeasure(chart) ==
  IF "originalMeasure" \in DOMAIN chart THEN chart.originalMeasure
  ELSE chart.measures[1]

CaseD(c1, c2, df) ==
  LET m1 == GetOriginalMeasure(c1)
      m2 == GetOriginalMeasure(c2)
      missing == FirstMissing(<< m1, m2 >>, Columns(df))
  IN  IF missing # << >> THEN Raised("D", Uncaught("KeyError", missing))
      ELSE Built("D", << >>, << m1, m2 >>, PickAgg(c1, c2),
                 << m1, " vs ", m2 >>,
                 "measure-vs-measure", "scatter | dual-histogram",
                 FrameTable([ cols |-> << m1, m2 >>,
                              rows |-> DropNa(df.rows, << m1, m2 >>) ]))

\* the frequency column under another name of fuse's own making
CaseEFrequency(c1, c2, df) ==
  LET d1 == c1.dimensions[1]
      d2 == c2.dimensions[1]
      missing == FirstMissing(<< d1, d2 >>, Columns(df))
  IN  IF missing # << >> THEN Raised("E", Uncaught("KeyError", missing))
      ELSE IF d1 = d2 THEN Raised("E", Uncaught("ValueError", << d1 >>))
      ELSE Built("E", << d1, d2 >>, << "Frequency" >>, PickAgg(c1, c2),
                 << d1, " vs ", d2, " (frequency)" >>,
                 "dimension-vs-dimension", "heatmap | mosaic | grouped-bar",
                 FrameTable(GroupSize(df, << d1, d2 >>, "Frequency")))

CaseE(c1, c2, df) ==
  LET d1 == c1.dimensions[1]
      d2 == c2.dimensions[1]
      missing == FirstMissing(<< d1, d2 >>, Columns(df))
  IN  IF missing # << >> THEN Raised("E", Uncaught("KeyError", missing))
      ELSE IF d1 = d2 THEN Raised("E", Uncaught("ValueError", << d1 >>))
      ELSE Built("E", << d1, d2 >>, << "Count" >>, PickAgg(c1, c2),
                 << d1, " vs ", d2, " (frequency)" >>,
                 "dimension-vs-dimension", "heatmap | mosaic | grouped-bar",
                 FrameTable(GroupSize(df, << d1, d2 >>, "Count")))

\* the fallback indexing the common dimensions from one, as if the list
\* began at zero
CaseFSecondCommon(c1, c2, df) ==
  LET common == Range(c1.dimensions) \cap Range(c2.dimensions)
      isCommon(d) == d \in common
      common_dims == SelectSeq(c1.dimensions, isCommon)
      measures == SortedList(Range(c1.measures) \cup Range(c2.measures))
      dims_use == IF Len(common_dims) >= 2 THEN << common_dims[2] >> ELSE << >>
      agg == PickAgg(c1, c2)
      r == Agg(df, dims_use, measures, agg)
  IN  IF dims_use = << >>
      THEN Raised("F", HTTPException(400, "Fusion failed: no common dimension found", << >>))
      ELSE IF r.err # Ok THEN Raised("F", r.err)
      ELSE Built("F", dims_use, measures, agg,
                 << "Combined: " >> \o JoinWith(measures, ", ") \o << " by " >>
                    \o JoinWith(dims_use, ", "),
                 "same-dimension-different-measures",
                 "grouped-bar | stacked-bar | dual-axis-line",
                 FrameTable(r.df))

\* the fallback aggregating on the last common dimension instead of the first
CaseFLastCommon(c1, c2, df) ==
  LET common == Range(c1.dimensions) \cap Range(c2.dimensions)
      isCommon(d) == d \in common
      common_dims == SelectSeq(c1.dimensions, isCommon)
      measures == SortedList(Range(c1.measures) \cup Range(c2.measures))
      dims_use == IF common_dims # << >> THEN << common_dims[Len(common_dims)] >> ELSE << >>
      agg == PickAgg(c1, c2)
      r == Agg(df, dims_use, measures, agg)
  IN  IF dims_use = << >>
      THEN Raised("F", HTTPException(400, "Fusion failed: no common dimension found", << >>))
      ELSE IF r.err # Ok THEN Raised("F", r.err)
      ELSE Built("F", dims_use, measures, agg,
                 << "Combined: " >> \o JoinWith(measures, ", ") \o << " by " >>
                    \o JoinWith(dims_use, ", "),
                 "same-dimension-different-measures",
                 "grouped-bar | stacked-bar | dual-axis-line",
                 FrameTable(r.df))

CaseF(c1, c2, df) ==
  LET common == Range(c1.dimensions) \cap Range(c2.dimensions)
      isCommon(d) == d \in common
      common_dims == SelectSeq(c1.dimensions, isCommon)
      measures == SortedList(Range(c1.measures) \cup Range(c2.measures))
      dims_use == IF common_dims # << >> THEN << common_dims[1] >> ELSE << >>
      agg == PickAgg(c1, c2)
      r == Agg(df, dims_use, measures, agg)
  IN  IF dims_use = << >>
      THEN Raised("F", HTTPException(400, "Fusion failed: no common dimension found", << >>))
      ELSE IF r.err # Ok THEN Raised("F", r.err)
      ELSE Built("F", dims_use, measures, agg,
                 << "Combined: " >> \o JoinWith(measures, ", ") \o << " by " >>
                    \o JoinWith(dims_use, ", "),
                 "same-dimension-different-measures",
                 "grouped-bar | stacked-bar | dual-axis-line",
                 FrameTable(r.df))

\* the chain with Case C recognised in one orientation only, the histogram
\* first
DispatchHistogramFirst(c1, c2) ==
  IF SameDimDiffMeasures(c1, c2) THEN "A"
  ELSE IF SameMeasureDiffDims(c1, c2) THEN "B"
  ELSE IF IsMeasureHistogram(c1) /\ IsDimensionCount(c2) THEN "C"
  ELSE IF IsMeasureHistogram(c1) /\ IsMeasureHistogram(c2) THEN "D"
  ELSE IF IsDimensionCount(c1) /\ IsDimensionCount(c2) THEN "E"
  ELSE IF /\ Cardinality(Range(c1.dimensions) \cap Range(c2.dimensions)) >= 1
          /\ Cardinality(Range(c1.measures) \cup Range(c2.measures)) >= 2 THEN "F"
  ELSE "none"

\* the chain with the permissive fallback as its last branch
DispatchFallback(c1, c2) ==
  IF SameDimDiffMeasures(c1, c2) THEN "A"
  ELSE IF SameMeasureDiffDims(c1, c2) THEN "B"
  ELSE IF \/ IsMeasureHistogram(c1) /\ IsDimensionCount(c2)
          \/ IsMeasureHistogram(c2) /\ IsDimensionCount(c1) THEN "C"
  ELSE IF IsMeasureHistogram(c1) /\ IsMeasureHistogram(c2) THEN "D"
  ELSE IF IsDimensionCount(c1) /\ IsDimensionCount(c2) THEN "E"
  ELSE "F"

\* the if / elif chain of fuse, lines 1461-1602
Dispatch(c1, c2) ==
  IF SameDimDiffMeasures(c1, c2) THEN "A"
  ELSE IF SameMeasureDiffDims(c1, c2) THEN "B"
  ELSE IF \/ IsMeasureHistogram(c1) /\ IsDimensionCount(c2)
          \/ IsMeasureHistogram(c2) /\ IsDimensionCount(c1) THEN "C"
  ELSE IF IsMeasureHistogram(c1) /\ IsMeasureHistogram(c2) THEN "D"
  ELSE IF IsDimensionCount(c1) /\ IsDimensionCount(c2) THEN "E"
  ELSE IF /\ Cardinality(Range(c1.dimensions) \cap Range(c2.dimensions)) >= 1
          /\ Cardinality(Range(c1.measures) \cup Range(c2.measures)) >= 2 THEN "F"
  ELSE "none"

FuseCase(c1, c2, df, order) ==
  LET case == Dispatch(c1, c2)
  IN  CASE case = "A" -> CaseA(c1, c2, df)
        [] case = "B" -> CaseB(c1, c2, df, order)
        [] case = "C" -> CaseC(c1, c2, df)
        [] case = "D" -> CaseD(c1, c2, df)
        [] case = "E" -> CaseE(c1, c2, df)
        [] case = "F" -> CaseF(c1, c2, df)
        [] OTHER -> Raised("none",
                      HTTPException(400, "Fusion not allowed: charts must share either a dimension (and differ in measures) or share a single common measure (and differ in dimensions)", << >>))


(***************************************************************************)
(* The requests.                                                           *)
(* An optional request field is a list of at most one value (None is the   *)
(* empty list), except originalMeasure, where NoValue stands for None, and *)
(* title, where the empty title stands for None.                           *)
(***************************************************************************)
EmptyFile == [ cols |-> << >>, rows |-> << >> ]

Files == { UploadedFile, EmptyFile }

\* a table computed by the client, as sent for a binned histogram
ClientTable == << [ bin |-> "0-10", count |-> 2 ], [ bin |-> "10-20", count |-> 1 ] >>

ChartCreate(dims, measures, agg, table, om, filters) ==
  [ dimensions |-> dims, measures |-> measures, agg |-> agg, title |-> << >>,
    table |-> table, originalMeasure |-> om, filters |-> filters ]

ChartRequests ==
  { \* histograms: legacy, legacy with originalMeasure, binned with and without
    ChartCreate(<< >>, << "Age" >>, "sum", << >>, NoValue, NoFilters),
    ChartCreate(<< >>, << "Gone" >>, "sum", << ClientTable >>, "Income", NoFilters),
    ChartCreate(<< >>, << "Age" >>, "sum", << >>, "Age", NoFilters),
    ChartCreate(<< "bin" >>, << "count" >>, "count", << ClientTable >>, "Age", NoFilters),
    ChartCreate(<< "bin" >>, << "count" >>, "count", << ClientTable >>, NoValue, NoFilters),
    \* dimension counts: stored with measures ["count"], and with measures []
    ChartCreate(<< "Region" >>, << >>, "count", << >>, NoValue, NoFilters),
    ChartCreate(<< "Product" >>, << >>, "count", << >>, NoValue, NoFilters),
    ChartCreate(<< "Region" >>, << >>, "", << ClientTable >>, NoValue, NoFilters),
    \* dimensions and measures
    ChartCreate(<< "Product" >>, << "Age" >>, "avg", << >>, NoValue,
                [ d \in { "Region" } |-> << "N" >> ]),
    ChartCreate(<< "Region", "Product" >>, << "Age", "Income" >>, "min", << >>, NoValue, NoFilters),
    ChartCreate(<< >>, << "Age", "Income" >>, "max", << >>, NoValue, NoFilters),
    \* neither dimension nor measure: rejected, unless the client sends a table
    ChartCreate(<< >>, << >>, "sum", << >>, NoValue, NoFilters),
    ChartCreate(<< >>, << >>, "sum", << ClientTable >>, NoValue, NoFilters) }

(***************************************************************************)
(* State.                                                                  *)
(*   datasets  DATASETS: dataset id -> DataFrame                           *)
(*   charts    CHARTS: chart id -> chart record                            *)
(*   last      the request handled last and its response; pre is the       *)
(*             Chart Registry as it was when the handler was entered and   *)
(*             trace the steps the handler went through                    *)
(* uuid4 yields an identifier not used before: the next integer.           *)
(***************************************************************************)
VARIABLES datasets, charts, last

vars == << datasets, charts, last >>

ChartIds == 1..MaxCharts

Init ==
  /\ datasets = [ d \in {} |-> NoFrame ]
  /\ charts = [ c \in {} |-> NoFrame ]
  /\ last = [ op |-> "none" ]

Put(map, key, value) ==
  [ k \in DOMAIN map \cup { key } |-> IF k = key THEN value ELSE map[k] ]

\* an identifier that is not fresh
NewIdFixed(map) == 1

NewId(map) == Cardinality(DOMAIN map) + 1

\* the charts made by /charts; a fused chart carries a strategy instead
Created == { c \in DOMAIN charts : "strategy" \notin DOMAIN charts[c] }

(***************************************************************************)
(* POST /upload                                                            *)
(***************************************************************************)
\* a client uploads a further file once it has charted the one before
Charted(d) == \E c \in DOMAIN charts : charts[c].dataset_id = d

UploadDataset(file) ==
  /\ Cardinality(DOMAIN datasets) < MaxDatasets
  /\ \A d \in DOMAIN datasets : Charted(d)
  /\ IF file.rows = << >>
     THEN /\ datasets' = datasets
          /\ last' = [ op |-> "upload", pre |-> charts,
                       resp |-> HTTPException(400, "The uploaded file is empty.", << >>) ]
     ELSE /\ datasets' = Put(datasets, NewId(datasets), file)
          /\ last' = [ op |-> "upload", pre |-> charts, resp |-> Ok ]
  /\ UNCHANGED charts

(***************************************************************************)
(* POST /charts                                                            *)
(***************************************************************************)
\* the table of the new chart: [err, table]
CreateTable(spec) ==
  IF spec.table # << >> THEN [ err |-> Ok, table |-> spec.table[1] ]
  ELSE LET df == ApplyFilters(datasets[spec.dataset_id], spec.filters)
           r == Agg(df, spec.dimensions, spec.measures, spec.agg)
       IN  IF r.err # Ok THEN [ err |-> r.err, table |-> << >> ]
           ELSE [ err |-> Ok, table |-> ToRecords(CleanDataframeForJson(r.df)) ]

NewChart(spec, chart_id, table_records) ==
  [ chart_id |-> chart_id,
    dataset_id |-> spec.dataset_id,
    dimensions |-> spec.dimensions,
    measures |-> IF spec.measures # << >> THEN spec.measures
                 ELSE IF spec.agg = "count" THEN << "count" >> ELSE << >>,
    agg |-> spec.agg,
    title |-> IF spec.title # << >> THEN spec.title
              ELSE GenerateChartTitle(spec.dimensions, spec.measures, spec.agg),
    table |-> table_records,
    originalMeasure |-> spec.originalMeasure,
    filters |-> spec.filters ]

\* the handler without its dataset check: a request that brings its table is
\* stored under any dataset id, one that does not fails at DATASETS[id]
CreateChartUnchecked(dataset_id, req) ==
  LET spec == [ dataset_id |-> dataset_id ] @@ req
  IN  /\ Cardinality(DOMAIN charts) < MaxCharts
      /\ Cardinality(Created) < MaxCreated
      /\ IF dataset_id \notin DOMAIN datasets /\ spec.table = << >>
         THEN /\ charts' = charts
              /\ last' = [ op |-> "create", pre |-> charts,
                           resp |-> Uncaught("KeyError", << >>) ]
         ELSE LET t == CreateTable(spec)
                  chart_id == NewId(charts)
              IN  IF t.err # Ok
                  THEN /\ charts' = charts
                       /\ last' = [ op |-> "create", pre |-> charts, resp |-> t.err ]
                  ELSE /\ charts' = Put(charts, chart_id, NewChart(spec, chart_id, t.table))
                       /\ last' = [ op |-> "create", pre |-> charts, resp |-> Ok ]
      /\ UNCHANGED datasets

CreateChart(dataset_id, req) ==
  LET spec == [ dataset_id |-> dataset_id ] @@ req
  IN  /\ Cardinality(DOMAIN charts) < MaxCharts
      /\ Cardinality(Created) < MaxCreated
      /\ IF dataset_id \notin DOMAIN datasets
         THEN /\ charts' = charts
              /\ last' = [ op |-> "create", pre |-> charts,
                           resp |-> HTTPException(404, "Dataset not found", << >>) ]
         ELSE LET t == CreateTable(spec)
                  chart_id == NewId(charts)
              IN  IF t.err # Ok
                  THEN /\ charts' = charts
                       /\ last' = [ op |-> "create", pre |-> charts, resp |-> t.err ]
                  ELSE /\ charts' = Put(charts, chart_id, NewChart(spec, chart_id, t.table))
                       /\ last' = [ op |-> "create", pre |-> charts, resp |-> Ok ]
      /\ UNCHANGED datasets

(***************************************************************************)
(* POST /fuse                                                              *)
(***************************************************************************)
FusedPayload(chart_id, ds_id, f) ==
  [ chart_id |-> chart_id,
    dataset_id |-> ds_id,
    dimensions |-> f.dims_out,
    measures |-> f.measures_out,
    agg |-> f.agg,
    title |-> f.title,
    strategy |-> f.strategy,
    table |-> f.table ]

\* the record is stored before the outcome of the case is known
RegisteredAlways(registry, f, payload) == Put(registry, payload.chart_id, payload)

\* the registry a fuse request leaves behind
Registered(registry, f, payload) ==
  IF f.err = Ok THEN Put(registry, payload.chart_id, payload) ELSE registry

FuseLog(chart1_id, chart2_id, trace, f) ==
  [ op |-> "fuse", chart1_id |-> chart1_id, chart2_id |-> chart2_id,
    pre |-> charts, resp |-> f.err, trace |-> trace, fused |-> f ]

\* "and" for "or" in the lookup: one known id is enough
ChartsFoundEither(registry, chart1_id, chart2_id) ==
  chart1_id \in DOMAIN registry \/ chart2_id \in DOMAIN registry

\* line 1439: both ids are keys of CHARTS
ChartsFound(registry, chart1_id, chart2_id) ==
  chart1_id \in DOMAIN registry /\ chart2_id \in DOMAIN registry

\* the dataset comparison left out
SameDatasetAlways(c1, c2) == TRUE

\* line 1444: the two records name the same dataset
SameDataset(c1, c2) == c1.dataset_id = c2.dataset_id

\* the handler up to the dispatch: the step at which it raises, or "classify".
\* A subscript CHARTS[id] or DATASETS[id] of an absent key raises KeyError.
FuseEntry(registry, store, chart1_id, chart2_id) ==
  IF ~ChartsFound(registry, chart1_id, chart2_id)
  THEN [ trace |-> << "charts" >>,
         err |-> HTTPException(404, "One or both charts not found", << >>) ]
  ELSE IF chart1_id \notin DOMAIN registry \/ chart2_id \notin DOMAIN registry
  THEN [ trace |-> << "charts" >>, err |-> Uncaught("KeyError", << >>) ]
  ELSE IF ~SameDataset(registry[chart1_id], registry[chart2_id])
  THEN [ trace |-> << "charts", "same-dataset" >>,
         err |-> HTTPException(400,
                   "Charts must come from the same dataset for fusion in this demo", << >>) ]
  ELSE IF registry[chart1_id].dataset_id \notin DOMAIN store
  THEN [ trace |-> << "charts", "same-dataset", "dataset" >>,
         err |-> Uncaught("KeyError", << >>) ]
  ELSE [ trace |-> << "charts", "same-dataset", "dataset", "classify" >>, err |-> Ok ]

Fuse(chart1_id, chart2_id) ==
  LET entry == FuseEntry(charts, datasets, chart1_id, chart2_id)
  IN  /\ Cardinality(DOMAIN charts) < MaxCharts
      /\ IF entry.err # Ok
         THEN /\ charts' = charts
              /\ last' = FuseLog(chart1_id, chart2_id, entry.trace, Raised("none", entry.err))
         ELSE LET c1 == charts[chart1_id]
                  c2 == charts[chart2_id]
                  ds_id == c1.dataset_id
              IN  \E order \in ListsOf(Range(c1.dimensions) \cup Range(c2.dimensions)) :
                     LET f == FuseCase(c1, c2, datasets[ds_id], order)
                         payload == FusedPayload(NewId(charts), ds_id, f)
                     IN  /\ charts' = Registered(charts, f, payload)
                         /\ last' = FuseLog(chart1_id, chart2_id,
                                       entry.trace
                                       \o (IF f.case # "none" THEN << "table" >> ELSE << >>)
                                       \o (IF f.err = Ok THEN << "register" >> ELSE << >>),
                                       f)
      /\ UNCHANGED datasets

\* a client asks for a chart of the dataset it uploaded last (id 0: of none)
CurrentDataset == Cardinality(DOMAIN datasets)

Next ==
  \/ \E file \in Files : UploadDataset(file)
  \/ \E req \in ChartRequests : CreateChart(CurrentDataset, req)
  \/ \E i, j \in ChartIds : Fuse(i, j)

Spec == Init /\ [][Next]_vars

(***************************************************************************)
(* The two single-chart classifiers as functions of a record: the record   *)
(* is drawn from all records whose dimension and measure lists have at     *)
(* most MaxListLen names, with and without an agg and an originalMeasure,  *)
(* and Classify applies both classifiers to it.                            *)
(***************************************************************************)
ClassifierNames == { "bin", "count", "Age", "Region" }

ListsUpTo(n) == UNION { [ 1..k -> ClassifierNames ] : k \in 0..n }

ClassifierInputs ==
  [ dimensions : ListsUpTo(MaxListLen), measures : ListsUpTo(MaxListLen),
    agg : { "", "count" }, originalMeasure : { NoValue, "Age" } ]

InitClassify ==
  /\ datasets = [ d \in {} |-> NoFrame ]
  /\ charts = [ c \in {} |-> NoFrame ]
  /\ last \in [ op : { "record" }, chart : ClassifierInputs ]

Classify ==
  /\ last.op = "record"
  /\ last' = [ op |-> "classified", chart |-> last.chart,
               is_measure_histogram |-> IsMeasureHistogram(last.chart),
               is_dimension_count |-> IsDimensionCount(last.chart) ]
  /\ UNCHANGED << datasets, charts >>

SpecClassify == InitClassify /\ [][Classify]_vars

(***************************************************************************)
(* _agg as a function of its arguments: the table is the uploaded file,    *)
(* the column lists are drawn from the lists without repetition of at most *)
(* MaxListLen names, among them a name that is no column, and Aggregate    *)
(* applies _agg to them.                                                   *)
(***************************************************************************)
ListsWithin(S, n) ==
  UNION { ListsOf(T) : T \in { U \in SUBSET S : Cardinality(U) <= n } }

AggregateInputs ==
  [ dimensions : ListsWithin({ "Region", "Product", "Gone" }, MaxListLen),
    measures : ListsWithin({ "Age", "Income", "Gone" }, MaxListLen),
    agg : { "count", "sum", "avg" } ]

InitAggregate ==
  /\ datasets = Put([ d \in {} |-> NoFrame ], 1, UploadedFile)
  /\ charts = [ c \in {} |-> NoFrame ]
  /\ last \in [ op : { "arguments" }, args : AggregateInputs ]

Aggregate ==
  /\ last.op = "arguments"
  /\ last' = [ op |-> "aggregated", args |-> last.args,
               result |-> Agg(datasets[1], last.args.dimensions,
                              last.args.measures, last.args.agg) ]
  /\ UNCHANGED << datasets, charts >>

SpecAggregate == InitAggregate /\ [][Aggregate]_vars

(***************************************************************************)
(* Concurrent requests.  The three handlers are coroutines (async def) of  *)
(* one event loop; fuse and create_chart contain no await, and upload none *)
(* after it has read the file, so a handler that has started runs to its   *)
(* end before the loop starts another.  Here fuse is split at its two      *)
(* accesses of CHARTS: FuseBegin is the read of the two records (lines     *)
(* 1439-1442), FuseEnd the rest, up to the write of line 1628.  While a    *)
(* fusion is between the two, last.op is "fusing" and last.pre the         *)
(* registry it read.                                                       *)
(***************************************************************************)
\* any handler may start while a fusion is between its read and its write
LoopFreeAlways == TRUE

\* the event loop is free to start a handler: no fusion is under way
LoopFree == last.op # "fusing"

ConcurrentRequests ==
  { ChartCreate(<< "Region" >>, << >>, "count", << >>, NoValue, NoFilters),
    ChartCreate(<< "Region" >>, << >>, "", << ClientTable >>, NoValue, NoFilters),
    ChartCreate(<< "Product" >>, << "Age" >>, "avg", << >>, NoValue,
                [ d \in { "Region" } |-> << "N" >> ]) }

LoopUpload(file) == LoopFree /\ UploadDataset(file)

LoopCreateChart(req) == LoopFree /\ CreateChart(CurrentDataset, req)

FuseBegin(chart1_id, chart2_id) ==
  /\ LoopFree
  /\ Cardinality(DOMAIN charts) < MaxCharts
  /\ last' = [ op |-> "fusing", chart1_id |-> chart1_id, chart2_id |-> chart2_id,
               pre |-> charts ]
  /\ UNCHANGED << datasets, charts >>

\* the fusion under way computes from the records it read and writes CHARTS
FuseEnd ==
  LET chart1_id == last.chart1_id
      chart2_id == last.chart2_id
      entry == FuseEntry(last.pre, datasets, chart1_id, chart2_id)
      log(trace, f) ==
        [ op |-> "fuse", chart1_id |-> chart1_id, chart2_id |-> chart2_id,
          pre |-> last.pre, resp |-> f.err, trace |-> trace, fused |-> f ]
  IN  /\ last.op = "fusing"
      /\ IF entry.err # Ok
         THEN /\ charts' = charts
              /\ last' = log(entry.trace, Raised("none", entry.err))
         ELSE LET c1 == last.pre[chart1_id]
                  c2 == last.pre[chart2_id]
                  ds_id == c1.dataset_id
              IN  \E order \in ListsOf(Range(c1.dimensions) \cup Range(c2.dimensions)) :
                     LET f == FuseCase(c1, c2, datasets[ds_id], order)
                         payload == FusedPayload(NewId(charts), ds_id, f)
                     IN  /\ charts' = Registered(charts, f, payload)
                         /\ last' = log(entry.trace
                                        \o (IF f.case # "none" THEN << "table" >> ELSE << >>)
                                        \o (IF f.err = Ok THEN << "register" >> ELSE << >>),
                                        f)
      /\ UNCHANGED datasets

ConcurrentNext ==
  \/ \E file \in Files : LoopUpload(file)
  \/ \E req \in ConcurrentRequests : LoopCreateChart(req)
  \/ \E i, j \in ChartIds : FuseBegin(i, j)
  \/ FuseEnd

SpecConcurrent == Init /\ [][ConcurrentNext]_vars


(***************************************************************************)
(* The claims.  They are stated on the request handled last: its two       *)
(* input records are read from last.pre, the registry it found.            *)
(***************************************************************************)
FuseDone == last.op = "fuse"

BothFound ==
  last.chart1_id \in DOMAIN last.pre /\ last.chart2_id \in DOMAIN last.pre

In1 == last.pre[last.chart1_id]
In2 == last.pre[last.chart2_id]

\* a fuse request whose two charts exist and belong to one dataset
FusedPair == FuseDone /\ BothFound /\ In1.dataset_id = In2.dataset_id

NewKeys == DOMAIN charts \ DOMAIN last.pre

\* the record the last request registered
NewRecord == charts[CHOOSE k \in NewKeys : TRUE]

SameRecord(a, b) ==
  /\ a.chart_id = b.chart_id
  /\ a.dataset_id = b.dataset_id
  /\ a.dimensions = b.dimensions
  /\ a.measures = b.measures
  /\ a.agg = b.agg
  /\ a.title = b.title
  /\ a.table = b.table

IsSorted(seq) ==
  \A i, j \in 1..Len(seq) : i < j => StrRank(seq[i]) < StrRank(seq[j])

\* C1: every fuse request either succeeds and leaves the registry with exactly
\* one key more than it found, or fails and leaves the registry as it found it.
C1_FuseAllOrNothing ==
  FuseDone =>
    \/ /\ last.resp = Ok
       /\ DOMAIN last.pre \subseteq DOMAIN charts
       /\ Cardinality(NewKeys) = 1
    \/ /\ last.resp # Ok
       /\ charts = last.pre

\* C1 witness: a fuse that raised while its table was computed
C1_FailedInTable ==
  /\ FuseDone
  /\ last.resp.status = 500
  /\ "table" \in Range(last.trace)
  /\ charts = last.pre

\* C2: whatever the request, every record the registry held before it is still
\* there afterwards with the same chart_id, dataset_id, dimensions, measures,
\* agg, title and table.
C2_RecordsKept ==
  last.op # "none" =>
    \A k \in DOMAIN last.pre :
       k \in DOMAIN charts /\ SameRecord(charts[k], last.pre[k])

\* C2 witness: a successful fusion of two different charts
C2_FusedTwoCharts ==
  /\ FuseDone
  /\ last.resp = Ok
  /\ last.chart1_id # last.chart2_id
  /\ Cardinality(NewKeys) = 1

\* C3: a fuse request on two existing charts of different datasets fails with
\* the cross-dataset error, before any classifier is evaluated, and registers
\* nothing.
C3_CrossDatasetRejected ==
  (FuseDone /\ BothFound /\ In1.dataset_id # In2.dataset_id) =>
    /\ last.resp = HTTPException(400,
                     "Charts must come from the same dataset for fusion in this demo", << >>)
    /\ "classify" \notin Range(last.trace)
    /\ charts = last.pre

\* C3 witness: two charts of different datasets whose shapes would match a case
C3_CrossDatasetPair ==
  /\ FuseDone /\ BothFound
  /\ In1.dataset_id # In2.dataset_id
  /\ Dispatch(In1, In2) # "none"

\* C4: a fuse request naming a chart id that is no key of the registry fails
\* with the not-found error at the lookup, before the dataset is read or a
\* classifier evaluated, and leaves the registry unchanged.
C4_UnknownChartNotFound ==
  (FuseDone /\ ~BothFound) =>
    /\ last.resp = HTTPException(404, "One or both charts not found", << >>)
    /\ last.trace = << "charts" >>
    /\ charts = last.pre

\* C4 witness: the first chart exists, the second does not
C4_OneChartUnknown ==
  /\ FuseDone
  /\ last.chart1_id \in DOMAIN last.pre
  /\ last.chart2_id \notin DOMAIN last.pre

\* C6: a pair with equal non-empty dimensions and different measure sets is
\* dispatched to Case A, and the record a successful fusion registers has the
\* dimensions of the first chart and the sorted union of the measures.
C6_SameDimensionsIsCaseA ==
  (/\ FusedPair
   /\ In1.dimensions = In2.dimensions
   /\ In1.dimensions # << >>
   /\ Range(In1.measures) # Range(In2.measures)) =>
    /\ last.fused.case = "A"
    /\ last.resp = Ok =>
         /\ NewRecord.strategy.type = "same-dimension-different-measures"
         /\ NewRecord.dimensions = In1.dimensions
         /\ Range(NewRecord.measures) = Range(In1.measures) \cup Range(In2.measures)
         /\ IsSorted(NewRecord.measures)

\* C6 witness: a Case A fusion that registered a record with two measures
C6_CaseATwoMeasures ==
  /\ FusedPair
  /\ In1.dimensions = In2.dimensions
  /\ Range(In1.measures) # Range(In2.measures)
  /\ last.resp = Ok
  /\ last.fused.case = "A"
  /\ Len(NewRecord.measures) = 2

\* C7: every pair of measure histograms, legacy or binned, is dispatched to
\* Case D, and a successful fusion registers a measure-vs-measure record with
\* no dimension and two measures.
C7_HistogramPairIsCaseD ==
  (FusedPair /\ IsMeasureHistogram(In1) /\ IsMeasureHistogram(In2)) =>
    /\ last.fused.case = "D"
    /\ last.resp = Ok =>
         /\ NewRecord.strategy.type = "measure-vs-measure"
         /\ NewRecord.dimensions = << >>
         /\ Len(NewRecord.measures) = 2

\* h is a histogram that carries an originalMeasure and d a dimension count
HistogramAndCount(h, d) ==
  IsMeasureHistogram(h) /\ HasOriginalMeasure(h) /\ IsDimensionCount(d)

\* C8: when one chart is a measure histogram with an originalMeasure and the
\* other a dimension count, the measure fuse works with is that
\* originalMeasure, never the literal "bin" or "count".
C8_OriginalMeasureUsed ==
  (FusedPair /\ (HistogramAndCount(In1, In2) \/ HistogramAndCount(In2, In1))) =>
    /\ \/ HistogramAndCount(In1, In2)
          /\ last.fused.measures_out = << In1.originalMeasure >>
       \/ HistogramAndCount(In2, In1)
          /\ last.fused.measures_out = << In2.originalMeasure >>
    /\ Range(last.fused.measures_out) \cap { "bin", "count" } = {}

\* C9: for a measure histogram h and a dimension count d of one dataset, that
\* is no histogram itself, fuse(h, d) and fuse(d, h) both take h as the measure
\* chart and d as the dimension chart, group by the dimension of d, and agree
\* on dimensions, measures and strategy type.
C9_CaseCOrderIndependent ==
  \A i, j \in DOMAIN charts :
    (/\ charts[i].dataset_id = charts[j].dataset_id
     /\ charts[i].dataset_id \in DOMAIN datasets
     /\ IsMeasureHistogram(charts[i])
     /\ IsDimensionCount(charts[j])
     /\ ~IsMeasureHistogram(charts[j])) =>
      LET df == datasets[charts[i].dataset_id]
          hd == FuseCase(charts[i], charts[j], df, << >>)
          dh == FuseCase(charts[j], charts[i], df, << >>)
      IN  /\ hd.measure_chart = 1 /\ hd.dimension_chart = 2
          /\ dh.measure_chart = 2 /\ dh.dimension_chart = 1
          /\ hd.dims_out = << charts[j].dimensions[1] >>
          /\ dh.dims_out = hd.dims_out
          /\ dh.measures_out = hd.measures_out
          /\ dh.strategy.type = hd.strategy.type

\* C10: every pair of dimension counts that are no histograms, with measures []
\* or ["count"], is dispatched to Case E, and a successful fusion registers a
\* dimension-vs-dimension record on the two dimensions with measures ["Count"].
C10_DimensionCountPairIsCaseE ==
  (/\ FusedPair
   /\ IsDimensionCount(In1) /\ IsDimensionCount(In2)
   /\ ~IsMeasureHistogram(In1) /\ ~IsMeasureHistogram(In2)) =>
    /\ last.fused.case = "E"
    /\ last.resp = Ok =>
         /\ NewRecord.strategy.type = "dimension-vs-dimension"
         /\ NewRecord.dimensions = << In1.dimensions[1], In2.dimensions[1] >>
         /\ NewRecord.measures = << "Count" >>

\* C11: no fusion of charts whose measures contain "count" fails because a
\* column named "count" was looked up in the dataset and found absent.
C11_CountNeverLookedUp ==
  (FusedPair /\ "count" \in Range(In1.measures) \cup Range(In2.measures)) =>
    ~(last.resp # Ok /\ last.resp.arg = << "count" >>)

\* none of the conditions of Cases A to F holds for the pair
NoCaseHolds(c1, c2) ==
  /\ ~SameDimDiffMeasures(c1, c2)
  /\ ~SameMeasureDiffDims(c1, c2)
  /\ ~(IsMeasureHistogram(c1) /\ IsDimensionCount(c2))
  /\ ~(IsMeasureHistogram(c2) /\ IsDimensionCount(c1))
  /\ ~(IsMeasureHistogram(c1) /\ IsMeasureHistogram(c2))
  /\ ~(IsDimensionCount(c1) /\ IsDimensionCount(c2))
  /\ ~(/\ Range(c1.dimensions) \cap Range(c2.dimensions) # {}
       /\ Cardinality(Range(c1.measures) \cup Range(c2.measures)) >= 2)

EmptyChart(c) == c.dimensions = << >> /\ c.measures = << >>

UnsupportedShape ==
  HTTPException(400, "Fusion not allowed: charts must share either a dimension (and differ in measures) or share a single common measure (and differ in dimensions)", << >>)

\* C12: a pair of charts of one dataset for which no case condition holds is
\* answered with the unsupported-shape error and registers nothing; two charts
\* without dimension and without measure are such a pair.
C12_NoCaseIsUnsupportedShape ==
  FusedPair =>
    /\ (EmptyChart(In1) /\ EmptyChart(In2)) => NoCaseHolds(In1, In2)
    /\ NoCaseHolds(In1, In2) =>
         /\ last.resp = UnsupportedShape
         /\ "table" \notin Range(last.trace)
         /\ charts = last.pre

\* C12 witness: two different charts, both without dimension and measure
C12_TwoEmptyCharts ==
  /\ FusedPair
  /\ last.chart1_id # last.chart2_id
  /\ EmptyChart(In1) /\ EmptyChart(In2)
  /\ last.resp.status = 400

\* C13: the table of every record a fusion registers has been through the
\* replacement of NaN by the null marker: cleaning it again changes nothing.
C13_FusedTableCleaned ==
  (FuseDone /\ last.resp = Ok) =>
    \A i \in 1..Len(NewRecord.table) :
       NewRecord.table[i] = CleanRow(NewRecord.table[i])

\* the last fuse failed on the lookup of a name (not a null) that is no column
\* of the dataset
ColumnLookupFailed ==
  /\ FusedPair
  /\ last.fused.case # "none"
  /\ last.resp.msg \in { "KeyError", "Column not found",
                         "Dimension column not found", "Measure column not found" }
  /\ last.resp.arg # << >>
  /\ last.resp.arg[1] # NoValue
  /\ last.resp.arg[1] \notin Columns(datasets[In1.dataset_id])

\* C14: in every case, a dimension or measure name the case uses that is no
\* column of the dataset is answered with the structured missing-column error
\* (status 400, naming the column and listing the existing columns), and
\* nothing is registered.
C14_MissingColumnReported ==
  ColumnLookupFailed =>
    /\ last.resp.status = 400
    /\ last.resp.msg \in { "Dimension column not found", "Measure column not found" }
    /\ charts = last.pre

\* C15: with requests arriving concurrently, the step that follows a fusion's
\* read of its two records is that fusion's own write: the registry is still
\* the one it read, every record in it is left as it is, and at most one key,
\* new to the registry, is added.
C15_FuseIndivisible ==
  [][ last.op = "fusing" =>
        /\ last'.op = "fuse"
        /\ last'.chart1_id = last.chart1_id
        /\ last'.chart2_id = last.chart2_id
        /\ last'.pre = charts
        /\ \A k \in DOMAIN charts : k \in DOMAIN charts' /\ charts'[k] = charts[k]
        /\ Cardinality(DOMAIN charts' \ DOMAIN charts) <= 1 ]_vars

\* C15 witness: a fusion of two different charts has read them and not yet
\* written, with room left in the registry for another record
C15_FusionInFlight ==
  /\ last.op = "fusing"
  /\ last.chart1_id \in DOMAIN charts
  /\ last.chart2_id \in DOMAIN charts
  /\ last.chart1_id # last.chart2_id
  /\ Cardinality(DOMAIN charts) < MaxCharts

\* the first non-empty agg of a and b, "sum" when both are empty
FirstAgg(a, b) == IF a.agg # "" THEN a.agg ELSE IF b.agg # "" THEN b.agg ELSE "sum"

\* C16 as stated: the agg of every fused record is the first non-empty agg of
\* the first and the second chart of the request, in that order, in all cases.
C16_AggLeftToRight ==
  (FusedPair /\ last.resp = Ok) => NewRecord.agg = FirstAgg(In1, In2)

\* C16: the agg of a fused record is the first non-empty agg of the two charts,
\* "sum" when there is none; the order is the histogram before the dimension
\* count in Case C, and the first chart of the request before the second in
\* every other case.
C16_AggPriority ==
  (FusedPair /\ last.resp = Ok) =>
    /\ last.fused.agg = NewRecord.agg
    /\ NewRecord.agg =
         IF last.fused.case = "C"
         THEN IF IsMeasureHistogram(In1) THEN FirstAgg(In1, In2) ELSE FirstAgg(In2, In1)
         ELSE FirstAgg(In1, In2)

\* C16 witness: a Case C fusion whose first chart is the dimension count, with
\* an agg of its own that differs from the histogram's
C16_CountBeforeHistogram ==
  /\ FusedPair
  /\ last.resp = Ok
  /\ last.fused.case = "C"
  /\ ~IsMeasureHistogram(In1)
  /\ In1.agg # ""
  /\ In1.agg # In2.agg

\* the column a histogram stands for: its originalMeasure when it has one that
\* is neither null nor empty, its first measure otherwise
SelectedMeasure(c) ==
  IF HasOriginalMeasure(c) THEN c.originalMeasure ELSE c.measures[1]

\* C17: Case D selects for each histogram its originalMeasure when present and
\* non-empty and its first measure otherwise, a null originalMeasure included:
\* when the two selected names are columns of the dataset the fusion succeeds
\* and the record's measures are the two selected names.
C17_CaseDSelectsMeasure ==
  (/\ FusedPair
   /\ last.fused.case = "D"
   /\ { SelectedMeasure(In1), SelectedMeasure(In2) }
        \subseteq Columns(datasets[In1.dataset_id])) =>
    /\ last.resp = Ok
    /\ NewRecord.measures = << SelectedMeasure(In1), SelectedMeasure(In2) >>

C19_AvgIsMean ==
  (FusedPair /\ last.fused.case \in { "A", "B-stacked", "B-long", "C", "F" }
             /\ "avg" \in { In1.agg, In2.agg }) =>
    last.resp # Uncaught("AttributeError", << "avg" >>)

\* the (dim1, dim2) pairs that occur in the rows of df
DimPairs(df, dim1, dim2) ==
  { << df.rows[i][dim1], df.rows[i][dim2] >> : i \in 1..Len(df.rows) }

\* C20: a Case B pair whose charts both have a dimension takes the stacked
\* branch, and the record it registers has the stacked strategy type,
\* dimensions [dim1, dim2], measures [common_measure] and a table with one row
\* for each (dim1, dim2) pair of the dataset, each holding exactly the columns
\* dim1, dim2 and common_measure.
C20_CaseBStacked ==
  (/\ FusedPair
   /\ SameMeasureDiffDims(In1, In2)
   /\ In1.dimensions # << >>
   /\ In2.dimensions # << >>) =>
    /\ last.fused.case = "B-stacked"
    /\ last.resp = Ok =>
         LET dim1 == In1.dimensions[1]
             dim2 == In2.dimensions[1]
             m == CHOOSE x \in Range(In1.measures) \cap Range(In2.measures) : TRUE
             table == NewRecord.table
             pairs == DimPairs(datasets[In1.dataset_id], dim1, dim2)
         IN  /\ NewRecord.strategy.type = "same-measure-different-dimensions-stacked"
             /\ NewRecord.dimensions = << dim1, dim2 >>
             /\ NewRecord.measures = << m >>
             /\ \A k \in 1..Len(table) : DOMAIN table[k] = { dim1, dim2, m }
             /\ Len(table) = Cardinality(pairs)
             /\ { << table[k][dim1], table[k][dim2] >> : k \in 1..Len(table) } = pairs

\* C20 witness: a stacked fusion that registered a table of several rows
C20_StackedRegistered ==
  /\ FusedPair
  /\ last.resp = Ok
  /\ last.fused.case = "B-stacked"
  /\ Len(NewRecord.table) >= 2

\* C21: a Case B pair of which exactly one chart has no dimension takes the
\* long-format branch, and the record it registers has the long-format
\* strategy type, measures [common_measure], as dimensions the union of the
\* two dimension sets, and a table of exactly the columns DimensionType,
\* DimensionValue and Value in which the row of the chart without dimension,
\* and no other, is the "(none)" row and has DimensionValue "(total)".
C21_CaseBLongFormat ==
  (/\ FusedPair
   /\ SameMeasureDiffDims(In1, In2)
   /\ (In1.dimensions = << >>) # (In2.dimensions = << >>)) =>
    /\ last.fused.case = "B-long"
    /\ last.resp = Ok =>
         LET m == CHOOSE x \in Range(In1.measures) \cap Range(In2.measures) : TRUE
             table == NewRecord.table
             total == IF In1.dimensions = << >> THEN 1 ELSE Len(table)
         IN  /\ NewRecord.strategy.type = "same-measure-different-dimensions"
             /\ NewRecord.measures = << m >>
             /\ Range(NewRecord.dimensions)
                  = Range(In1.dimensions) \cup Range(In2.dimensions)
             /\ Len(NewRecord.dimensions) = Cardinality(Range(NewRecord.dimensions))
             /\ Len(table) >= 2
             /\ \A k \in 1..Len(table) :
                   /\ DOMAIN table[k] = { "DimensionType", "DimensionValue", "Value" }
                   /\ (table[k].DimensionType = << "(none)" >>) = (k = total)
             /\ table[total].DimensionValue = << "(total)" >>

\* C21 witness: a long-format fusion whose first chart has no dimension
C21_LongFormatRegistered ==
  /\ FusedPair
  /\ last.resp = Ok
  /\ last.fused.case = "B-long"
  /\ In1.dimensions = << >>
  /\ In2.dimensions # << >>

\* none of the conditions of Cases A to E holds for the pair
NoneOfAToE(c1, c2) ==
  /\ ~SameDimDiffMeasures(c1, c2)
  /\ ~SameMeasureDiffDims(c1, c2)
  /\ ~(IsMeasureHistogram(c1) /\ IsDimensionCount(c2))
  /\ ~(IsMeasureHistogram(c2) /\ IsDimensionCount(c1))
  /\ ~(IsMeasureHistogram(c1) /\ IsMeasureHistogram(c2))
  /\ ~(IsDimensionCount(c1) /\ IsDimensionCount(c2))

\* the dimensions intersect and there are at least two measures in all
FallbackGuard(c1, c2) ==
  /\ Range(c1.dimensions) \cap Range(c2.dimensions) # {}
  /\ Cardinality(Range(c1.measures) \cup Range(c2.measures)) >= 2

\* the first dimension of c1 that is a dimension of c2 too
FirstCommonDimension(c1, c2) ==
  LET at == { i \in 1..Len(c1.dimensions) : c1.dimensions[i] \in Range(c2.dimensions) }
  IN  c1.dimensions[CHOOSE i \in at : \A j \in at : i <= j]

\* C22: a pair that matches none of Cases A to E, whose dimension sets
\* intersect and whose measures number at least two in all, takes Case F, and
\* the record it registers has the first dimension of c1 that c2 has too as its
\* only dimension, the sorted union of the measures, and the strategy type
\* "same-dimension-different-measures".
C22_FallbackOnFirstCommonDimension ==
  (FusedPair /\ NoneOfAToE(In1, In2) /\ FallbackGuard(In1, In2)) =>
    /\ last.fused.case = "F"
    /\ last.resp = Ok =>
         /\ NewRecord.strategy.type = "same-dimension-different-measures"
         /\ NewRecord.dimensions = << FirstCommonDimension(In1, In2) >>
         /\ Range(NewRecord.measures) = Range(In1.measures) \cup Range(In2.measures)
         /\ IsSorted(NewRecord.measures)

\* C22 witness: a Case F fusion of two charts with two common dimensions
C22_TwoCommonDimensions ==
  /\ FusedPair
  /\ last.resp = Ok
  /\ last.fused.case = "F"
  /\ Cardinality(Range(In1.dimensions) \cap Range(In2.dimensions)) = 2

\* C23: a pair that contains a measure histogram never takes Case B, not even
\* when the two charts share exactly one measure and differ in dimensions.
C23_HistogramNeverCaseB ==
  (FusedPair /\ (IsMeasureHistogram(In1) \/ IsMeasureHistogram(In2))) =>
    /\ ~SameMeasureDiffDims(In1, In2)
    /\ last.fused.case \notin { "B-stacked", "B-long" }

\* C23 witness: a histogram and a chart that share exactly one measure and
\* differ in dimensions
C23_HistogramSharesMeasure ==
  /\ FusedPair
  /\ IsMeasureHistogram(In1) \/ IsMeasureHistogram(In2)
  /\ Cardinality(Range(In1.measures) \cap Range(In2.measures)) = 1
  /\ In1.dimensions # In2.dimensions

\* the reference definitions of the two classifiers, on the two lists alone
ReferenceHistogram(dimensions, measures) ==
  \/ dimensions = << >> /\ Len(measures) = 1 /\ measures # << "count" >>
  \/ dimensions = << "bin" >> /\ measures = << "count" >>

ReferenceCount(dimensions, measures) ==
  Len(dimensions) = 1 /\ measures \in { << >>, << "count" >> }

\* C24: on every record, is_measure_histogram and is_dimension_count give what
\* their reference definitions give on the record's dimensions and measures,
\* whatever its other fields; a record without dimension and measure
\* satisfies neither.
C24_ClassifiersAreReference ==
  last.op = "classified" =>
    /\ last.is_measure_histogram
         = ReferenceHistogram(last.chart.dimensions, last.chart.measures)
    /\ last.is_dimension_count
         = ReferenceCount(last.chart.dimensions, last.chart.measures)
    /\ (last.chart.dimensions = << >> /\ last.chart.measures = << >>) =>
         (~last.is_measure_histogram /\ ~last.is_dimension_count)

\* C24 witness: the binned histogram, which both classifiers accept
C24_BinnedClassified ==
  /\ last.op = "classified"
  /\ last.chart.dimensions = << "bin" >>
  /\ last.chart.measures = << "count" >>
  /\ last.is_measure_histogram
  /\ last.is_dimension_count

\* the number of rows of df whose dims columns hold what they hold in row
RowsLike(df, dims, row) ==
  Cardinality({ i \in 1..Len(df.rows) :
                  \A d \in Range(dims) : df.rows[i][d] = row[d] })

\* C25: _agg with agg "count" neither validates nor reads the value columns:
\* when the group-by columns exist it succeeds, with one row per distinct
\* group holding the group's row count in column count, or with no group-by
\* column the single row {count: number of rows}.  With another agg and no
\* value column it fails before anything is grouped.
C25_CountIgnoresValueColumns ==
  last.op = "aggregated" =>
    LET df == datasets[1]
        dims == last.args.dimensions
        out == last.result
    IN  /\ (last.args.agg = "count" /\ Range(dims) \subseteq Columns(df)) =>
             /\ out.err = Ok
             /\ out.df.cols = dims \o << "count" >>
             /\ dims = << >> => out.df.rows = << [ count |-> Len(df.rows) ] >>
             /\ dims # << >> =>
                  /\ \A k \in 1..Len(out.df.rows) :
                        /\ DOMAIN out.df.rows[k] = Range(dims) \cup { "count" }
                        /\ out.df.rows[k].count = RowsLike(df, dims, out.df.rows[k])
                        /\ out.df.rows[k].count >= 1
                  /\ \A j, k \in 1..Len(out.df.rows) :
                        j # k => KeyOf(out.df.rows[j], dims) # KeyOf(out.df.rows[k], dims)
                  /\ \A i \in 1..Len(df.rows) : \E k \in 1..Len(out.df.rows) :
                        KeyOf(out.df.rows[k], dims) = KeyOf(df.rows[i], dims)
        /\ (last.args.agg # "count" /\ last.args.measures = << >>) =>
             /\ out.err = HTTPException(400,
                            "At least one measure is required for non-count aggregations", << >>)
             /\ out.df = NoFrame

\* C25 witness: a count by an existing column, asked with a value column that
\* does not exist
C25_CountWithUnknownValueColumn ==
  /\ last.op = "aggregated"
  /\ last.args.agg = "count"
  /\ last.args.dimensions = << "Region" >>
  /\ "Gone" \in Range(last.args.measures)
  /\ last.result.err = Ok

\* C26: every record of the registry names a dataset that is in the Dataset
\* Store, so no fuse request on two existing charts of one dataset fails at
\* the lookup of their dataset.
C26_DatasetOfEveryChartStored ==
  /\ \A c \in DOMAIN charts : charts[c].dataset_id \in DOMAIN datasets
  /\ FusedPair =>
       /\ In1.dataset_id \in DOMAIN datasets
       /\ "classify" \in Range(last.trace)
       /\ last.resp # Uncaught("KeyError", << >>)

\* C26 witness: a fusion registered a record while the registry holds charts
\* of two datasets
C26_FusedWithTwoDatasets ==
  /\ FuseDone
  /\ last.resp = Ok
  /\ Cardinality(DOMAIN datasets) = 2
  /\ Cardinality({ charts[c].dataset_id : c \in DOMAIN charts }) = 2

\* C27: every name in the dimensions and the measures of a record registered
\* by fuse is a key of every row of the record's table.
C27_NamesAreTableColumns ==
  (FuseDone /\ last.resp = Ok) =>
    \A k \in 1..Len(NewRecord.table) :
       Range(NewRecord.dimensions) \cup Range(NewRecord.measures)
         \subseteq DOMAIN NewRecord.table[k]

\* C28: every name in the dimensions and the measures of a record registered
\* by fuse is a column of the dataset or the reserved measure name "count".
C28_FusedNamesAreColumns ==
  (FuseDone /\ last.resp = Ok) =>
    Range(NewRecord.dimensions) \cup Range(NewRecord.measures)
      \subseteq Columns(datasets[NewRecord.dataset_id]) \cup { "count" }

\* the names a record carries: its dimensions, its measures and, when it has
\* one, its originalMeasure
NamesOf(c) ==
  Range(c.dimensions) \cup Range(c.measures)
    \cup (IF "originalMeasure" \in DOMAIN c THEN { c.originalMeasure } ELSE {})

\* C28 amended: every name in the dimensions and the measures of a record
\* registered by fuse is a name one of its two inputs carries, in its
\* dimensions, its measures or its originalMeasure, or the measure name "Count"
\* that Case E gives its frequency column.
C28_FusedNamesFromInputsOrCount ==
  (FuseDone /\ last.resp = Ok) =>
    Range(NewRecord.dimensions) \cup Range(NewRecord.measures)
      \subseteq NamesOf(In1) \cup NamesOf(In2) \cup { "Count" }

\* C28 witness: a Case E fusion registered with the measure "Count", which is
\* neither a column of the dataset nor a name of its inputs
C28_CountInvented ==
  /\ FuseDone
  /\ last.resp = Ok
  /\ last.fused.case = "E"
  /\ NewRecord.measures = << "Count" >>
  /\ "Count" \notin Columns(datasets[NewRecord.dataset_id])
  /\ "Count" \notin NamesOf(In1) \cup NamesOf(In2)

\* C29: no fuse request is answered with "Fusion failed: no common dimension
\* found": whenever Case F is taken, some dimension of c1 is a dimension of
\* c2, so the list of common dimensions in c1's order is not empty.
C29_NoCommonDimensionUnreachable ==
  FuseDone =>
    /\ last.resp.msg # "Fusion failed: no common dimension found"
    /\ (FusedPair /\ last.fused.case = "F") =>
         \E i \in 1..Len(In1.dimensions) : In1.dimensions[i] \in Range(In2.dimensions)

\* C29 witness: a Case F fusion of two charts with different dimension lists
\* that have exactly one dimension in common
C29_OneCommonDimension ==
  /\ FusedPair
  /\ last.fused.case = "F"
  /\ In1.dimensions # In2.dimensions
  /\ Cardinality(Range(In1.dimensions) \cap Range(In2.dimensions)) = 1

\* the branch of the chain a fusion took: the two shapes of Case B are one
\* branch
BranchTaken ==
  IF last.fused.case \in { "B-stacked", "B-long" } THEN "B" ELSE last.fused.case

\* C30: for every fusion of two charts of one dataset, the branch taken for
\* (c1, c2) among A, B, C, D, E, F and no match is the branch the chain
\* selects for (c2, c1).
C30_DispatchSymmetric ==
  FusedPair => BranchTaken = Dispatch(In2, In1)

\* C30 witness: a Case C fusion that names the dimension-count chart first and
\* the histogram second
C30_DimensionCountFirst ==
  /\ FusedPair
  /\ last.fused.case = "C"
  /\ IsDimensionCount(In1)
  /\ IsMeasureHistogram(In2)
  /\ ~IsMeasureHistogram(In1)

=============================================================================
